---------------------------- MODULE Spec2Model ----------------------------
(***************************************************************************)
(* Model of the inference-serving shim docker/run_model_api.py:            *)
(*   get_model_type          - the Model Type Classifier                   *)
(*   preprocess_features     - the Feature Normalizer                      *)
(*   get_fallback_prediction - the Fallback Predictor                      *)
(*   predict                 - the Inference Dispatcher                    *)
(*                                                                         *)
(* Representation.                                                         *)
(*  - A Python str that the code inspects (model path, status, weather     *)
(*    condition, station id, timestamp, string payloads) is a sequence of  *)
(*    one-character strings, so that lower(), upper(), basename, "in" and  *)
(*    float(str) are computed character by character.  Dictionary keys are *)
(*    only compared for equality and stay TLA+ strings.                    *)
(*  - A JSON value is a record [t, n, s]: t is the Python type, n the      *)
(*    numeric payload, s the string payload.  An int carries its value in  *)
(*    n; a float carries its value in hundredths in n (0.9 is 90).         *)
(*  - The result of float(x) and every number of a feature vector or of a  *)
(*    response is a float, written in hundredths (7.0 is 700).             *)
(*  - A call either returns or raises: [status |-> "ok", ...] or           *)
(*    [status |-> "raise", exc |-> <exception class>].                     *)
(***************************************************************************)
EXTENDS Integers, Sequences, FiniteSets, TLC

VARIABLES
    model_path,   \* predict / get_model_type / get_fallback_prediction argument
    input_data,   \* the input record (a function from keys to JSON values)
    model_type,   \* the model family (classifier result, normalizer argument)
    artifact,     \* the model artifact on disk and what it can do
    now,          \* the wall clock read by datetime.now()
    pc,           \* position in the operation under way
    result,       \* what the operation returned or raised
    result2,      \* the second normalization of the same record
    history       \* the steps the request has taken, in order

vars == <<model_path, input_data, model_type, artifact, now, pc, result, result2, history>>

-----------------------------------------------------------------------------
(* Bounds of the input domains.                                            *)

\* A model file name is made of at most MaxWords words joined by "_".
MaxWords == 2
\* An input record holds at most MaxKeys keys.
MaxKeys == 2

-----------------------------------------------------------------------------
(* String literals, one character per element.                             *)

s_traffic == <<"t","r","a","f","f","i","c">>
s_fault == <<"f","a","u","l","t">>
s_queue == <<"q","u","e","u","e">>
s_wait == <<"w","a","i","t">>
s_demand == <<"d","e","m","a","n","d">>
s_arrival == <<"a","r","r","i","v","a","l">>
s_rebalance == <<"r","e","b","a","l","a","n","c","e">>
s_stock == <<"s","t","o","c","k">>
s_order == <<"o","r","d","e","r">>
s_staff == <<"s","t","a","f","f">>
s_diversion == <<"d","i","v","e","r","s","i","o","n">>
s_tieup == <<"t","i","e","u","p">>
s_storage == <<"s","t","o","r","a","g","e">>
s_action == <<"a","c","t","i","o","n">>
s_recommender == <<"r","e","c","o","m","m","e","n","d","e","r">>
s_gemini == <<"g","e","m","i","n","i">>
s_llm == <<"l","l","m">>
s_xgb == <<"x","g","b">>
s_xgb_queue == <<"x","g","b","_","q","u","e","u","e">>
s_xgb_wait == <<"x","g","b","_","w","a","i","t">>
s_lgbm_fault_tuned_model == <<"l","g","b","m","_","f","a","u","l","t","_","t","u","n","e","d","_","m","o","d","e","l">>
s_station_recommender == <<"s","t","a","t","i","o","n","_","r","e","c","o","m","m","e","n","d","e","r">>
s_FAULT == <<"F","A","U","L","T">>
s_Recommender == <<"R","e","c","o","m","m","e","n","d","e","r">>
s_LLM == <<"L","L","M">>
s_pkl == <<".","p","k","l">>
s_models_dir == <<"m","o","d","e","l","s","/">>
s_fault_dir == <<"f","a","u","l","t","_","m","o","d","e","l","s","/">>
s_llm_dir == <<"L","L","M","/">>
s_Fog == <<"F","o","g">>
s_Rain == <<"R","a","i","n">>
s_Clear == <<"C","l","e","a","r">>
s_Snow == <<"S","n","o","w">>
s_DEGRADED == <<"D","E","G","R","A","D","E","D">>
s_MAINTENANCE == <<"M","A","I","N","T","E","N","A","N","C","E">>
s_OPERATIONAL == <<"O","P","E","R","A","T","I","O","N","A","L">>
s_degraded == <<"d","e","g","r","a","d","e","d">>
s_Operational == <<"O","p","e","r","a","t","i","o","n","a","l">>
s_OFFLINE == <<"O","F","F","L","I","N","E">>
s_STATION_000 == <<"S","T","A","T","I","O","N","_","0","0","0">>
s_STATION_001 == <<"S","T","A","T","I","O","N","_","0","0","1">>
s_STATION_002 == <<"S","T","A","T","I","O","N","_","0","0","2">>
s_STATION_003 == <<"S","T","A","T","I","O","N","_","0","0","3">>
s_STATION_004 == <<"S","T","A","T","I","O","N","_","0","0","4">>
s_STATION_999 == <<"S","T","A","T","I","O","N","_","9","9","9">>
s_abc == <<"a","b","c">>
s_7 == <<"7">>
s_garbage == <<"g","a","r","b","a","g","e">>
s_ts_mon_0830 == <<"2","0","2","4","-","0","1","-","1","5","T","0","8",":","3","0",":","0","0">>
s_ts_sat_2000 == <<"2","0","2","4","-","0","1","-","2","0","T","2","0",":","0","0",":","0","0">>
s_ts_wed_1900 == <<"2","0","2","5","-","0","3","-","0","5","T","1","9",":","0","0",":","0","0">>
s_ts_sun_0759 == <<"2","0","2","3","-","1","2","-","3","1","T","0","7",":","5","9",":","5","9">>
UpperChars == <<"A","B","C","D","E","F","G","H","I","J","K","L","M","N","O","P","Q","R","S","T","U","V","W","X","Y","Z">>
LowerChars == <<"a","b","c","d","e","f","g","h","i","j","k","l","m","n","o","p","q","r","s","t","u","v","w","x","y","z">>
DigitChars == <<"0","1","2","3","4","5","6","7","8","9">>

-----------------------------------------------------------------------------
(* Python string operations.                                               *)

\* str.lower() on one character
LowerChar(c) ==
    IF \E i \in 1..Len(UpperChars) : UpperChars[i] = c
    THEN LowerChars[CHOOSE i \in 1..Len(UpperChars) : UpperChars[i] = c]
    ELSE c

\* str.upper() on one character
UpperChar(c) ==
    IF \E i \in 1..Len(LowerChars) : LowerChars[i] = c
    THEN UpperChars[CHOOSE i \in 1..Len(LowerChars) : LowerChars[i] = c]
    ELSE c

\* str.lower()
Lower(s) == [i \in 1..Len(s) |-> LowerChar(s[i])]

\* str.upper()
Upper(s) == [i \in 1..Len(s) |-> UpperChar(s[i])]

\* sub in s
Contains(sub, s) ==
    \E i \in 1..(Len(s) - Len(sub) + 1) : SubSeq(s, i, i + Len(sub) - 1) = sub

\* os.path.basename(p): what follows the last "/"
Basename(p) ==
    LET slashes == {i \in 1..Len(p) : p[i] = "/"}
        last == CHOOSE i \in slashes : \A j \in slashes : j <= i
    IN  IF slashes = {} THEN p ELSE SubSeq(p, last + 1, Len(p))

\* s * n for a str s
RECURSIVE Repeat(_, _)
Repeat(s, n) == IF n <= 0 THEN <<>> ELSE s \o Repeat(s, n - 1)

\* the value of a character as a decimal digit, -1 when it is none
DigitValue(c) ==
    IF \E i \in 1..10 : DigitChars[i] = c
    THEN (CHOOSE i \in 1..10 : DigitChars[i] = c) - 1
    ELSE -1

IsDigits(s) == Len(s) > 0 /\ \A i \in 1..Len(s) : DigitValue(s[i]) >= 0

\* int(s) for a string of decimal digits
RECURSIVE ParseInt(_)
ParseInt(s) ==
    IF Len(s) = 0 THEN 0
    ELSE 10 * ParseInt(SubSeq(s, 1, Len(s) - 1)) + DigitValue(s[Len(s)])

\* n written with exactly w decimal digits (format "%0wd")
RECURSIVE FormatInt(_, _)
FormatInt(n, w) ==
    IF w = 0 THEN <<>> ELSE FormatInt(n \div 10, w - 1) \o <<DigitChars[(n % 10) + 1]>>

-----------------------------------------------------------------------------
(* JSON values as Python sees them.                                        *)

PyInt(k)   == [t |-> "int",   n |-> k, s |-> <<>>]
PyFloat(c)   == [t |-> "float", n |-> c, s |-> <<>>]   \* c in hundredths
PyStr(x)   == [t |-> "str",   n |-> 0, s |-> x]
None     == [t |-> "NoneType", n |-> 0, s |-> <<>>]
Dict     == [t |-> "dict",  n |-> 0, s |-> <<>>]   \* a nested object
List     == [t |-> "list",  n |-> 0, s |-> <<>>]   \* a nested array

Ok(v)      == [status |-> "ok", value |-> v]
Raise(exc) == [status |-> "raise", exc |-> exc]

IsNumber(v) == v.t \in {"int", "float"}

\* the value of a number in hundredths
Hundredths(v) == IF v.t = "int" THEN v.n * 100 ELSE v.n

\* float(v): a number converts; a str converts when it spells a number (the
\* model's strings are decimal digits or words that spell none); anything
\* else is a TypeError.
ToFloat(v) ==
    CASE v.t = "int"   -> Ok(v.n * 100)
      [] v.t = "float" -> Ok(v.n)
      [] v.t = "str"   -> IF IsDigits(v.s) THEN Ok(ParseInt(v.s) * 100)
                          ELSE Raise("ValueError")
      [] OTHER         -> Raise("TypeError")

\* v * k for an int k: numbers multiply, str and list repeat, None and
\* dict raise TypeError.
Times(v, k) ==
    CASE v.t = "int"   -> Ok(PyInt(v.n * k))
      [] v.t = "float" -> Ok(PyFloat(v.n * k))
      [] v.t = "str"   -> Ok(PyStr(Repeat(v.s, k)))
      [] v.t = "list"  -> Ok(List)
      [] OTHER         -> Raise("TypeError")

\* v < k and v > k for an int k: only numbers compare with an int
Comparable(v) == IsNumber(v)
LessThan(v, k) == Hundredths(v) < k * 100
GreaterThan(v, k) == Hundredths(v) > k * 100

\* v == s for a str literal s
EqStr(v, s) == v.t = "str" /\ v.s = s

\* v in [8, 9, 17, 18, 19]: list membership compares with ==
InPeakHours(v) == IsNumber(v) /\ Hundredths(v) \in {800, 900, 1700, 1800, 1900}

\* dict.get(key, default)
Get(d, key, default) == IF key \in DOMAIN d THEN d[key] ELSE default

-----------------------------------------------------------------------------
(* Model Type Classifier.                                                  *)

\* get_model_type without the lower() of line 167
get_model_type_no_lower(path) ==
    LET model_name == Basename(path)
    IN  IF Contains(s_fault, model_name) THEN "fault"
        ELSE IF Contains(s_recommender, model_name) THEN "recommender"
        ELSE IF Contains(s_gemini, model_name) \/ Contains(s_llm, model_name) THEN "llm"
        ELSE "standard"

get_model_type(path) ==
    LET model_name == Lower(Basename(path))
    IN  IF Contains(s_fault, model_name) THEN "fault"
        ELSE IF Contains(s_recommender, model_name) THEN "recommender"
        ELSE IF Contains(s_gemini, model_name) \/ Contains(s_llm, model_name) THEN "llm"
        ELSE "standard"

-----------------------------------------------------------------------------
(* Wall clock and timestamps.                                              *)

\* A datetime: [year, month, day, hour, minute, second].
DateTime(y, mo, d, h, mi, s) ==
    [year |-> y, month |-> mo, day |-> d, hour |-> h, minute |-> mi, second |-> s]

\* datetime.isoformat(): "YYYY-MM-DDTHH:MM:SS"
isoformat(dt) ==
    FormatInt(dt.year, 4) \o <<"-">> \o FormatInt(dt.month, 2) \o <<"-">>
        \o FormatInt(dt.day, 2) \o <<"T">> \o FormatInt(dt.hour, 2) \o <<":">>
        \o FormatInt(dt.minute, 2) \o <<":">> \o FormatInt(dt.second, 2)

IsLeapYear(y) == (y % 4 = 0 /\ y % 100 # 0) \/ y % 400 = 0

DaysInMonth(y, mo) ==
    IF mo = 2 THEN (IF IsLeapYear(y) THEN 29 ELSE 28)
    ELSE IF mo \in {4, 6, 9, 11} THEN 30 ELSE 31

\* the fields of a string of the form "YYYY-MM-DDTHH:MM:SS"
IsoFields(s) ==
    DateTime(ParseInt(SubSeq(s, 1, 4)), ParseInt(SubSeq(s, 6, 7)),
             ParseInt(SubSeq(s, 9, 10)), ParseInt(SubSeq(s, 12, 13)),
             ParseInt(SubSeq(s, 15, 16)), ParseInt(SubSeq(s, 18, 19)))

\* whether s spells a date and time in the form "YYYY-MM-DDTHH:MM:SS"
IsIsoDateTime(s) ==
    /\ Len(s) = 19
    /\ s[5] = "-" /\ s[8] = "-" /\ s[11] = "T" /\ s[14] = ":" /\ s[17] = ":"
    /\ \A i \in (1..19) \ {5, 8, 11, 14, 17} : DigitValue(s[i]) >= 0
    /\ LET dt == IsoFields(s)
       IN  /\ dt.month \in 1..12
           /\ dt.day \in 1..DaysInMonth(dt.year, dt.month)
           /\ dt.hour \in 0..23 /\ dt.minute \in 0..59 /\ dt.second \in 0..59

\* pd.to_datetime(v).  None comes back as None; a number counts nanoseconds
\* from 1970-01-01T00:00:00 (the model's numbers stay within the first
\* second); an ISO-8601 date-time string parses to its fields; the model's
\* other strings are words no date parser accepts, and a nested object has
\* no year/month/day columns: both raise ValueError.  (A nested array is
\* outside the timestamp values of the model.)
to_datetime(v) ==
    CASE v.t = "NoneType" -> Ok(None)
      [] IsNumber(v)      -> Ok(DateTime(1970, 1, 1, 0, 0, 0))
      [] v.t = "str"      -> IF IsIsoDateTime(v.s) THEN Ok(IsoFields(v.s))
                             ELSE Raise("ValueError")
      [] OTHER            -> Raise("ValueError")

\* datetime.weekday(): 0 = Monday .. 6 = Sunday
weekday(dt) ==
    LET t == <<0, 3, 2, 5, 0, 3, 5, 1, 4, 6, 2, 4>>
        y == IF dt.month < 3 THEN dt.year - 1 ELSE dt.year
        sunday0 == (y + (y \div 4) - (y \div 100) + (y \div 400) + t[dt.month] + dt.day) % 7
    IN  (sunday0 + 6) % 7

\* lines 31-40 with the record's timestamp ignored: always the clock
resolve_timestamp_clock_only(data, clock) ==
    Ok([hour_of_day |-> clock.hour,
        day_of_week |-> weekday(clock),
        is_weekend  |-> weekday(clock) >= 5])

\* run_model_api.py lines 31-40: the timestamp of the record, or the clock.
\* Ok([hour_of_day, day_of_week, is_weekend]), or the AttributeError of
\* reading .hour of None.
resolve_timestamp(data, clock) ==
    LET timestamp_str == Get(data, "timestamp", PyStr(isoformat(clock)))
        parsed == to_datetime(timestamp_str)
        timestamp == IF parsed.status = "raise" THEN clock ELSE parsed.value
    IN  IF timestamp = None THEN Raise("AttributeError")
        ELSE Ok([hour_of_day |-> timestamp.hour,
                 day_of_week |-> weekday(timestamp),
                 is_weekend  |-> weekday(timestamp) >= 5])

-----------------------------------------------------------------------------
(* Feature Normalizer.                                                     *)

\* lines 62-73 with the Rain test ahead of the Fog test
weather_one_hot_rain_first(weather_condition, weather_temp) ==
    IF EqStr(weather_condition, s_Rain) THEN Ok(<<0, 0, 1>>)
    ELSE IF ~Comparable(weather_temp) THEN Raise("TypeError")
    ELSE IF GreaterThan(weather_temp, 35) THEN Ok(<<0, 0, 1>>)
    ELSE IF EqStr(weather_condition, s_Fog) \/ LessThan(weather_temp, 10)
         THEN Ok(<<0, 1, 0>>)
    ELSE Ok(<<1, 0, 0>>)

\* lines 62-73: <<weather_clear, weather_fog, weather_rain>>.  "or" does not
\* evaluate the temperature comparison once the condition matched.
weather_one_hot(weather_condition, weather_temp) ==
    IF EqStr(weather_condition, s_Fog) THEN Ok(<<0, 1, 0>>)
    ELSE IF ~Comparable(weather_temp) THEN Raise("TypeError")
    ELSE IF LessThan(weather_temp, 10) THEN Ok(<<0, 1, 0>>)
    ELSE IF EqStr(weather_condition, s_Rain) \/ GreaterThan(weather_temp, 35)
         THEN Ok(<<0, 0, 1>>)
    ELSE Ok(<<1, 0, 0>>)

\* lines 75-79: <<status_degraded, status_maintenance, status_operational>>
status_one_hot(status_value) ==
    IF status_value.t # "str" THEN Raise("AttributeError")
    ELSE LET status == Upper(status_value.s)
         IN  Ok(<<IF status = s_DEGRADED THEN 1 ELSE 0,
                  IF status = s_MAINTENANCE THEN 1 ELSE 0,
                  IF status = s_OPERATIONAL THEN 1 ELSE 0>>)

\* line 82
station_ids == <<s_STATION_000, s_STATION_001, s_STATION_002, s_STATION_003, s_STATION_004>>

\* lines 81-86
station_one_hot(station_id) ==
    LET one_hot == [i \in 1..Len(station_ids) |->
                        IF EqStr(station_id, station_ids[i]) THEN 1 ELSE 0]
    IN  IF \A i \in 1..Len(station_ids) : one_hot[i] = 0
        THEN [one_hot EXCEPT ![1] = 1]
        ELSE one_hot

\* line 88
is_peak_hour(hour_of_day) == IF hour_of_day \in {8, 9, 17, 18, 19} THEN 1 ELSE 0

\* line 89: 1.2 or 1.0
traffic_factor(is_weekend) == IF is_weekend THEN PyFloat(120) ELSE PyFloat(100)

\* lines 101-127 with avg_wait_time left out
fault_feature_vector_no_wait(f) ==
    <<f.current_queue, f.available_batteries, f.total_batteries,
      f.available_chargers, f.total_chargers,
      f.power_usage_kw, f.power_capacity_kw,
      PyInt(f.hour_of_day), PyInt(f.day_of_week), PyInt(f.is_peak_hour),
      f.traffic_factor, f.station_reliability, f.energy_stability,
      PyInt(f.weather[1]), PyInt(f.weather[2]), PyInt(f.weather[3]),
      PyInt(f.status[1]), PyInt(f.status[2]), PyInt(f.status[3]),
      PyInt(f.station[1]), PyInt(f.station[2]), PyInt(f.station[3]),
      PyInt(f.station[4]), PyInt(f.station[5])>>

\* lines 101-127: the 25 values of the fault family, before float()
fault_feature_vector(f) ==
    <<f.current_queue, f.available_batteries, f.total_batteries,
      f.available_chargers, f.total_chargers, f.avg_wait_time,
      f.power_usage_kw, f.power_capacity_kw,
      PyInt(f.hour_of_day), PyInt(f.day_of_week), PyInt(f.is_peak_hour),
      f.traffic_factor, f.station_reliability, f.energy_stability,
      PyInt(f.weather[1]), PyInt(f.weather[2]), PyInt(f.weather[3]),
      PyInt(f.status[1]), PyInt(f.status[2]), PyInt(f.status[3]),
      PyInt(f.station[1]), PyInt(f.station[2]), PyInt(f.station[3]),
      PyInt(f.station[4]), PyInt(f.station[5])>>

\* lines 137-161: the 23 values of the standard family, before float()
standard_feature_vector(f) ==
    <<f.available_batteries, f.total_batteries,
      f.available_chargers, f.total_chargers,
      f.power_usage_kw, f.power_capacity_kw,
      PyInt(f.hour_of_day), PyInt(f.day_of_week), PyInt(f.is_peak_hour),
      f.traffic_factor, f.station_reliability, f.energy_stability,
      PyInt(f.weather[1]), PyInt(f.weather[2]), PyInt(f.weather[3]),
      PyInt(f.status[1]), PyInt(f.status[2]), PyInt(f.status[3]),
      PyInt(f.station[1]), PyInt(f.station[2]), PyInt(f.station[3]),
      PyInt(f.station[4]), PyInt(f.station[5])>>

\* lines 93-100: the feature order the fault model expects
fault_feature_names ==
    <<"queue_length", "available_batteries", "total_batteries", "available_chargers",
      "total_chargers", "avg_wait_time", "power_usage_kw", "power_capacity_kw",
      "hour_of_day", "day_of_week", "is_peak_hour", "traffic_factor",
      "station_reliability_score", "energy_stability_index",
      "weather_condition_Clear", "weather_condition_Fog", "weather_condition_Rain",
      "status_DEGRADED", "status_MAINTENANCE", "status_OPERATIONAL",
      "station_id_STATION_000", "station_id_STATION_001", "station_id_STATION_002",
      "station_id_STATION_003", "station_id_STATION_004">>

\* lines 130-136: the feature order the standard models expect
standard_feature_names ==
    <<"available_batteries", "total_batteries", "available_chargers", "total_chargers",
      "power_usage_kw", "power_capacity_kw", "hour_of_day", "day_of_week",
      "is_peak_hour", "traffic_factor", "station_reliability_score", "energy_stability_index",
      "weather_condition_Clear", "weather_condition_Fog", "weather_condition_Rain",
      "status_DEGRADED", "status_MAINTENANCE", "status_OPERATIONAL",
      "station_id_STATION_000", "station_id_STATION_001", "station_id_STATION_002",
      "station_id_STATION_003", "station_id_STATION_004">>

\* [float(x) for x in values]: the floats, or the first exception raised
FloatAll(values) ==
    LET bad == {i \in 1..Len(values) : ToFloat(values[i]).status = "raise"}
        first == CHOOSE i \in bad : \A j \in bad : i <= j
    IN  IF bad = {} THEN Ok([i \in 1..Len(values) |-> ToFloat(values[i]).value])
        ELSE ToFloat(values[first])

\* preprocess_features(data, model_type), lines 22-163, with the clock it
\* reads.  Ok(<<feature_vector>>): one row, as np.array([feature_vector]).
\* The defaults of dict.get are evaluated whether or not the key is
\* present, so current_queue * 3 (line 52) raises for any record whose
\* current_queue cannot be multiplied.
preprocess_features(data, family, clock) ==
    LET ts == resolve_timestamp(data, clock)
        current_queue ==
            Get(data, "current_queue",
                Get(data, "currentQueue", Get(data, "queue_length", PyInt(5))))
        energy_demand == Get(data, "energy_demand", Get(data, "energyDemand", PyInt(100)))
        weather_temp == Get(data, "weather_temp", Get(data, "weatherTemp", PyInt(25)))
        station_reliability ==
            Get(data, "station_reliability",
                Get(data, "stationReliability",
                    Get(data, "station_reliability_score", PyFloat(90))))
        energy_stability ==
            Get(data, "energy_stability",
                Get(data, "energyStability",
                    Get(data, "energy_stability_index", PyFloat(90))))
        station_id == Get(data, "station_id", Get(data, "stationId", PyStr(s_STATION_000)))
        times3 == Times(current_queue, 3)
        times2 == Times(current_queue, 2)
        avg_wait_time == Get(data, "avg_wait_time", Get(data, "avgWaitTime", times3.value))
        available_batteries ==
            Get(data, "available_batteries", Get(data, "availableBatteries", times2.value))
        total_batteries == Get(data, "total_batteries", Get(data, "totalBatteries", PyInt(50)))
        available_chargers ==
            Get(data, "available_chargers", Get(data, "availableChargers", PyInt(10)))
        total_chargers == Get(data, "total_chargers", Get(data, "totalChargers", PyInt(15)))
        power_usage_kw == Get(data, "power_usage_kw", Get(data, "powerUsageKw", energy_demand))
        power_capacity_kw ==
            Get(data, "power_capacity_kw", Get(data, "powerCapacityKw", PyInt(200)))
        weather_condition ==
            Get(data, "weather_condition", Get(data, "weatherCondition", PyStr(s_Clear)))
        weather == weather_one_hot(weather_condition, weather_temp)
        status == status_one_hot(Get(data, "status", PyStr(s_OPERATIONAL)))
        f == [current_queue       |-> current_queue,
              available_batteries |-> available_batteries,
              total_batteries     |-> total_batteries,
              available_chargers  |-> available_chargers,
              total_chargers      |-> total_chargers,
              avg_wait_time       |-> avg_wait_time,
              power_usage_kw      |-> power_usage_kw,
              power_capacity_kw   |-> power_capacity_kw,
              hour_of_day         |-> ts.value.hour_of_day,
              day_of_week         |-> ts.value.day_of_week,
              is_peak_hour        |-> is_peak_hour(ts.value.hour_of_day),
              traffic_factor      |-> traffic_factor(ts.value.is_weekend),
              station_reliability |-> station_reliability,
              energy_stability    |-> energy_stability,
              weather             |-> weather.value,
              status              |-> status.value,
              station             |-> station_one_hot(station_id)]
        feature_vector ==
            FloatAll(IF family = "fault" THEN fault_feature_vector(f)
                     ELSE standard_feature_vector(f))
    IN  IF ts.status = "raise" THEN ts
        ELSE IF times3.status = "raise" THEN times3
        ELSE IF weather.status = "raise" THEN weather
        ELSE IF status.status = "raise" THEN status
        ELSE IF feature_vector.status = "raise" THEN feature_vector
        ELSE Ok(<<feature_vector.value>>)

-----------------------------------------------------------------------------
(* Fallback Predictor.                                                     *)

\* line 211
canned_explanation ==
    "This station is recommended based on optimal availability, minimal wait time, and reliable service."

\* get_fallback_prediction(model_path, input_data), lines 178-213.
\* Ok(response), or the exception float() or * raised.
get_fallback_prediction(path, data) ==
    LET model_name == Lower(Basename(path))
        current_queue == Get(data, "current_queue", Get(data, "currentQueue", PyInt(5)))
        hour_of_day == Get(data, "hour_of_day", PyInt(12))
        has(word) == Contains(word, model_name)
        as_float == ToFloat(current_queue)
        times3 == Times(current_queue, 3)
        times3_float == ToFloat(times3.value)
    IN  IF has(s_traffic) THEN
            \* min(0.9, 0.5 + 0.2) or min(0.9, 0.5)
            Ok([prediction |-> IF InPeakHours(hour_of_day) THEN 70 ELSE 50,
                fallback |-> TRUE])
        ELSE IF has(s_fault) THEN
            Ok([prediction |-> 15, probabilities |-> <<85, 15>>, fallback |-> TRUE])
        ELSE IF has(s_queue) THEN
            IF as_float.status = "raise" THEN as_float
            ELSE Ok([prediction |-> as_float.value, fallback |-> TRUE])
        ELSE IF has(s_wait) THEN
            IF times3.status = "raise" THEN times3
            ELSE IF times3_float.status = "raise" THEN times3_float
            ELSE Ok([prediction |-> times3_float.value, fallback |-> TRUE])
        ELSE IF has(s_demand) \/ has(s_arrival) THEN
            Ok([prediction |-> 60, fallback |-> TRUE])
        ELSE IF has(s_rebalance) THEN
            Ok([prediction |-> 40, fallback |-> TRUE])
        ELSE IF has(s_stock) \/ has(s_order) THEN
            Ok([prediction |-> 50, fallback |-> TRUE])
        ELSE IF has(s_staff) \/ has(s_diversion) THEN
            Ok([prediction |-> 30, fallback |-> TRUE])
        ELSE IF has(s_tieup) \/ has(s_storage) THEN
            Ok([prediction |-> 40, fallback |-> TRUE])
        ELSE IF has(s_action) THEN
            Ok([prediction |-> 0, probabilities |-> <<80, 15, 5>>, fallback |-> TRUE])
        ELSE IF has(s_recommender) THEN
            Ok([prediction |-> 75, recommendation_score |-> 75, fallback |-> TRUE])
        ELSE IF has(s_gemini) \/ has(s_llm) THEN
            Ok([explanation |-> canned_explanation, fallback |-> TRUE])
        ELSE
            Ok([prediction |-> 50, fallback |-> TRUE])

-----------------------------------------------------------------------------
(* Input domains.                                                          *)

EmptyRecord == [k \in {} |-> None]

\* The records that hold at most n of the keys of vals, each key k with one
\* of the values vals[k].
RECURSIVE RecordsFrom(_, _)
RecordsFrom(vals, n) ==
    IF n = 0 \/ DOMAIN vals = {} THEN {EmptyRecord}
    ELSE LET k == CHOOSE k \in DOMAIN vals : TRUE
             rest == [j \in (DOMAIN vals) \ {k} |-> vals[j]]
         IN  RecordsFrom(rest, n) \cup
             {(k :> v) @@ r : v \in vals[k], r \in RecordsFrom(rest, n - 1)}

\* The names made of n words joined by "_".
RECURSIVE NamesOfWords(_, _)
NamesOfWords(words, n) ==
    IF n = 1 THEN words
    ELSE {w \o <<"_">> \o r : w \in words, r \in NamesOfWords(words, n - 1)}

NamesUpTo(words, n) == UNION {NamesOfWords(words, k) : k \in 1..n}

\* Model identifiers given to the classifier: a directory, a file name of
\* words in either letter case, and the extension.
ClassifierDirs == {<<>>, s_models_dir, s_fault_dir, s_llm_dir}
ClassifierWords ==
    {s_fault, s_recommender, s_gemini, s_llm, s_queue, s_xgb,
     s_FAULT, s_Recommender, s_LLM}
ClassifierPaths ==
    {d \o name \o s_pkl : d \in ClassifierDirs, name \in NamesUpTo(ClassifierWords, MaxWords)}

\* Model identifiers given to the fallback predictor: every keyword it
\* tests, alone and combined.
FallbackDirs == {s_models_dir, s_fault_dir}
FallbackWords ==
    {s_traffic, s_fault, s_queue, s_wait, s_demand, s_arrival, s_rebalance,
     s_stock, s_order, s_staff, s_diversion, s_tieup, s_storage, s_action,
     s_recommender, s_gemini, s_llm, s_xgb}
FallbackPaths ==
    {d \o name \o s_pkl : d \in FallbackDirs, name \in NamesUpTo(FallbackWords, MaxWords)}

\* Values of the keys the fallback predictor reads (and queue_length, which
\* the normalizer reads).
FallbackValues ==
    [current_queue |-> {PyInt(7), PyFloat(250), PyStr(s_7), PyStr(s_abc), None, Dict},
     currentQueue  |-> {PyInt(3)},
     queue_length  |-> {PyInt(9)},
     hour_of_day   |-> {PyInt(8), PyInt(20), PyFloat(1700), PyStr(s_7), None}]
FallbackRecords == RecordsFrom(FallbackValues, MaxKeys)

\* Values of the keys the normalizer reads: numbers on both sides of every
\* threshold, strings in either letter case, recognized and unrecognized
\* categories, and values of the wrong type.
NormalizerValues ==
    [timestamp           |-> {PyStr(s_ts_mon_0830), PyStr(s_ts_sat_2000), PyStr(s_ts_wed_1900),
                              PyStr(s_ts_sun_0759), PyStr(s_garbage), None},
     current_queue       |-> {PyInt(7), PyFloat(250), PyStr(s_7), PyStr(s_abc), None, Dict},
     currentQueue        |-> {PyInt(3)},
     queue_length        |-> {PyInt(9)},
     weather_temp        |-> {PyInt(5), PyInt(10), PyInt(35), PyInt(40), PyFloat(2050),
                              PyStr(s_7), None},
     weatherTemp         |-> {PyInt(5), PyInt(40)},
     weather_condition   |-> {PyStr(s_Fog), PyStr(s_Rain), PyStr(s_Clear), PyStr(s_Snow)},
     weatherCondition    |-> {PyStr(s_Rain)},
     status              |-> {PyStr(s_degraded), PyStr(s_MAINTENANCE), PyStr(s_Operational),
                              PyStr(s_OFFLINE), PyInt(1), None},
     station_id          |-> {PyStr(s_STATION_003), PyStr(s_STATION_999), PyInt(3)},
     stationId           |-> {PyStr(s_STATION_001), PyStr(s_STATION_004)},
     available_batteries |-> {PyInt(12), List},
     avg_wait_time       |-> {PyFloat(450), Dict},
     energy_demand       |-> {PyInt(150)},
     power_usage_kw      |-> {PyInt(80), PyStr(s_abc)},
     station_reliability_score |-> {PyFloat(80)},
     total_chargers      |-> {PyInt(20), None}]
NormalizerRecords == RecordsFrom(NormalizerValues, MaxKeys)

\* Readings of the wall clock, in the order they can be read: a Friday at a
\* peak hour, the last second of that Friday, the first of the Saturday.
Clocks ==
    <<DateTime(2024, 1, 19, 17, 30, 0), DateTime(2024, 1, 19, 23, 59, 59),
      DateTime(2024, 1, 20, 0, 0, 0)>>

\* Requests given to the dispatcher.
PredictPaths ==
    {s_models_dir \o name \o s_pkl :
        name \in {s_xgb_queue, s_xgb_wait, s_lgbm_fault_tuned_model, s_traffic,
                  s_station_recommender, s_gemini, s_xgb}}
PredictValues ==
    [current_queue |-> {PyInt(7), PyStr(s_abc), None},
     currentQueue  |-> {PyInt(3)},
     queue_length  |-> {PyInt(9)},
     weather_temp  |-> {PyInt(40), PyStr(s_7)},
     hour_of_day   |-> {PyInt(8)},
     status        |-> {PyInt(1)}]
PredictRecords == RecordsFrom(PredictValues, MaxKeys)

\* Model artifacts: missing; present and unreadable by both loaders; or
\* readable by one of them, with the capabilities the loaded object exposes,
\* whether its methods raise, and what predict returns.
Capabilities == {"predict", "predict_proba", "get_recommendation", "generate"}
NoModel == [caps |-> {}, raises |-> FALSE, output |-> <<>>]
Models ==
    [caps : SUBSET Capabilities, raises : BOOLEAN, output : {<<700>>, <<700, 300>>}]
Artifacts ==
    {[exists |-> FALSE, joblib_ok |-> FALSE, pickle_ok |-> FALSE, model |-> NoModel],
     [exists |-> TRUE, joblib_ok |-> FALSE, pickle_ok |-> FALSE, model |-> NoModel]}
    \cup {[exists |-> TRUE, joblib_ok |-> TRUE, pickle_ok |-> TRUE, model |-> m] : m \in Models}
    \cup {[exists |-> TRUE, joblib_ok |-> FALSE, pickle_ok |-> TRUE, model |-> m] : m \in Models}

NoArtifact == [exists |-> FALSE, joblib_ok |-> FALSE, pickle_ok |-> FALSE, model |-> NoModel]
NoResult == [status |-> "none"]

-----------------------------------------------------------------------------
(* The classifier alone: get_model_type applied to a model identifier.     *)

ClassifyInit ==
    /\ model_path \in ClassifierPaths
    /\ input_data = EmptyRecord
    /\ model_type = "unset"
    /\ artifact = NoArtifact
    /\ now = Clocks[1]
    /\ pc = "ready"
    /\ result = NoResult
    /\ result2 = NoResult
    /\ history = <<>>

Classify ==
    /\ pc = "ready"
    /\ model_type' = get_model_type(model_path)
    /\ pc' = "classified"
    /\ UNCHANGED <<model_path, input_data, artifact, now, result, result2, history>>

SpecClassify == ClassifyInit /\ [][Classify]_vars

-----------------------------------------------------------------------------
(* The normalizer alone: preprocess_features applied twice to one record,  *)
(* the wall clock moving on in between.                                    *)

NormalizeInit ==
    /\ model_path = <<>>
    /\ input_data \in NormalizerRecords
    /\ model_type \in {"standard", "fault"}
    /\ artifact = NoArtifact
    /\ now = Clocks[1]
    /\ pc = "ready"
    /\ result = NoResult
    /\ result2 = NoResult
    /\ history = <<>>

Normalize ==
    /\ pc = "ready"
    /\ result' = preprocess_features(input_data, model_type, now)
    /\ pc' = "once"
    /\ UNCHANGED <<model_path, input_data, model_type, artifact, now, result2, history>>

\* time passes: the clock shows a later reading
Tick ==
    /\ pc = "once"
    /\ \E i, j \in 1..Len(Clocks) : i < j /\ now = Clocks[i] /\ now' = Clocks[j]
    /\ UNCHANGED <<model_path, input_data, model_type, artifact, pc, result, result2, history>>

NormalizeAgain ==
    /\ pc = "once"
    /\ result2' = preprocess_features(input_data, model_type, now)
    /\ pc' = "twice"
    /\ UNCHANGED <<model_path, input_data, model_type, artifact, now, result, history>>

NormalizeNext == Normalize \/ Tick \/ NormalizeAgain

SpecNormalize == NormalizeInit /\ [][NormalizeNext]_vars

-----------------------------------------------------------------------------
(* The fallback predictor alone.                                           *)

FallbackInit ==
    /\ model_path \in FallbackPaths
    /\ input_data \in FallbackRecords
    /\ model_type = "unset"
    /\ artifact = NoArtifact
    /\ now = Clocks[1]
    /\ pc = "ready"
    /\ result = NoResult
    /\ result2 = NoResult
    /\ history = <<>>

Fallback ==
    /\ pc = "ready"
    /\ result' = get_fallback_prediction(model_path, input_data)
    /\ pc' = "returned"
    /\ UNCHANGED <<model_path, input_data, model_type, artifact, now, result2, history>>

SpecFallback == FallbackInit /\ [][Fallback]_vars

-----------------------------------------------------------------------------
(* Inference Dispatcher: predict, lines 215-292, one action per step.      *)
(* pc names the step about to run; "done" is a returned response and       *)
(* "error" an exception that left predict.                                 *)

\* lines 243-286: what the loaded model is asked and what is returned, or
\* the exception raised on the way.  A method the model lacks is an
\* AttributeError; a method that fails raises RuntimeError.
invoke_model(model, family, data, clock) ==
    LET features == preprocess_features(data, family, clock)
        has(attr) == attr \in model.caps
    IN  IF family = "recommender" THEN
            IF has("get_recommendation") THEN
                IF model.raises THEN Raise("RuntimeError")
                ELSE Ok([recommendation |-> "model recommendation"])
            ELSE Ok([prediction |-> 75, recommendation_score |-> 75])
        ELSE IF family = "llm" THEN
            IF has("generate") THEN
                IF model.raises THEN Raise("RuntimeError")
                ELSE Ok([explanation |-> "model explanation"])
            ELSE Ok([explanation |->
                "This station is recommended based on optimal availability and minimal wait time."])
        ELSE IF features.status = "raise" THEN features
        ELSE IF has("predict_proba") THEN
            IF model.raises THEN Raise("RuntimeError")
            ELSE IF ~has("predict") THEN Raise("AttributeError")
            ELSE Ok([prediction |-> model.output[1], probabilities |-> <<85, 15>>])
        ELSE
            IF ~has("predict") THEN Raise("AttributeError")
            ELSE IF model.raises THEN Raise("RuntimeError")
            ELSE Ok([prediction |-> IF Len(model.output) = 1 THEN model.output[1]
                                    ELSE model.output])

Init ==
    /\ model_path \in PredictPaths
    /\ input_data \in PredictRecords
    /\ model_type = "unset"
    /\ artifact \in Artifacts
    /\ now = Clocks[1]
    /\ pc = "CheckExists"
    /\ result = NoResult
    /\ result2 = NoResult
    /\ history = <<>>

\* lines 221-222: os.path.exists(model_path)
CheckExists ==
    /\ pc = "CheckExists"
    /\ pc' = IF artifact.exists THEN "Classify" ELSE "Fallback223"
    /\ history' = Append(history, "CheckExists")
    /\ UNCHANGED <<model_path, input_data, model_type, artifact, now, result, result2>>

\* line 223: the fallback for a missing artifact, outside the try block
Fallback223 ==
    /\ pc = "Fallback223"
    /\ result' = get_fallback_prediction(model_path, input_data)
    /\ pc' = IF result'.status = "ok" THEN "done" ELSE "error"
    /\ history' = Append(history, "Fallback")
    /\ UNCHANGED <<model_path, input_data, model_type, artifact, now, result2>>

\* line 225
ClassifyStep ==
    /\ pc = "Classify"
    /\ model_type' = get_model_type(model_path)
    /\ pc' = "LoadJoblib"
    /\ history' = Append(history, "Classify")
    /\ UNCHANGED <<model_path, input_data, artifact, now, result, result2>>

\* lines 230-233: joblib.load
LoadJoblib ==
    /\ pc = "LoadJoblib"
    /\ pc' = IF artifact.joblib_ok THEN "Invoke" ELSE "LoadPickle"
    /\ history' = Append(history, "LoadJoblib")
    /\ UNCHANGED <<model_path, input_data, model_type, artifact, now, result, result2>>

\* lines 234-239: pickle.load
LoadPickle ==
    /\ pc = "LoadPickle"
    /\ pc' = IF artifact.pickle_ok THEN "Invoke" ELSE "Fallback240"
    /\ history' = Append(history, "LoadPickle")
    /\ UNCHANGED <<model_path, input_data, model_type, artifact, now, result, result2>>

\* line 240: the fallback for an unreadable artifact, inside the outer try:
\* what it raises is caught at line 288
Fallback240 ==
    /\ pc = "Fallback240"
    /\ result' = get_fallback_prediction(model_path, input_data)
    /\ pc' = IF result'.status = "ok" THEN "done" ELSE "Fallback292"
    /\ history' = Append(history, "Fallback")
    /\ UNCHANGED <<model_path, input_data, model_type, artifact, now, result2>>

\* lines 243-286: what it raises is caught at line 288
Invoke ==
    /\ pc = "Invoke"
    /\ result' = invoke_model(artifact.model, model_type, input_data, now)
    /\ pc' = IF result'.status = "ok" THEN "done" ELSE "Fallback292"
    /\ history' = Append(history, "Invoke")
    /\ UNCHANGED <<model_path, input_data, model_type, artifact, now, result2>>

\* lines 288-292: the except handler's fallback; what it raises leaves predict
Fallback292 ==
    /\ pc = "Fallback292"
    /\ result' = get_fallback_prediction(model_path, input_data)
    /\ pc' = IF result'.status = "ok" THEN "done" ELSE "error"
    /\ history' = Append(history, "Fallback")
    /\ UNCHANGED <<model_path, input_data, model_type, artifact, now, result2>>

Next ==
    \/ CheckExists
    \/ Fallback223
    \/ ClassifyStep
    \/ LoadJoblib
    \/ LoadPickle
    \/ Fallback240
    \/ Invoke
    \/ Fallback292

Spec == Init /\ [][Next]_vars

-----------------------------------------------------------------------------
(* Vocabulary of the properties.                                           *)

Families == {"standard", "fault", "recommender", "llm"}

\* the family the priority order fault > recommender > gemini/llm > standard
\* gives a lower-cased name
PriorityFamily(name) ==
    IF Contains(s_fault, name) THEN "fault"
    ELSE IF Contains(s_recommender, name) THEN "recommender"
    ELSE IF Contains(s_gemini, name) \/ Contains(s_llm, name) THEN "llm"
    ELSE "standard"

\* the base filename of a path: its longest suffix without a "/"
BaseFilename(path) ==
    LET k == CHOOSE k \in 0..Len(path) :
                /\ k = 0 \/ path[k] = "/"
                /\ \A j \in (k + 1)..Len(path) : path[j] # "/"
    IN  SubSeq(path, k + 1, Len(path))

\* the directory part of a path: what precedes the base filename
DirectoryPart(path) == SubSeq(path, 1, Len(path) - Len(BaseFilename(path)))

\* the first of the keys present in the record, else the default
RECURSIVE Resolved(_, _, _)
Resolved(data, keys, default) ==
    IF keys = <<>> THEN default
    ELSE IF Head(keys) \in DOMAIN data THEN data[Head(keys)]
    ELSE Resolved(data, Tail(keys), default)

NumericKeys ==
    {"current_queue", "currentQueue", "queue_length", "weather_temp", "weatherTemp",
     "available_batteries", "avg_wait_time", "energy_demand", "power_usage_kw",
     "station_reliability_score", "total_chargers", "hour_of_day"}
StringKeys ==
    {"timestamp", "status", "station_id", "stationId", "weather_condition",
     "weatherCondition"}

\* every field present is a scalar of the type its key calls for
WellTyped(data) ==
    \A k \in DOMAIN data :
        /\ k \in NumericKeys => IsNumber(data[k])
        /\ k \in StringKeys => data[k].t = "str"

FeatureNames(family) ==
    IF family = "fault" THEN fault_feature_names ELSE standard_feature_names

\* the position of a named feature in the vector of a family
Position(family, name) ==
    CHOOSE i \in 1..Len(FeatureNames(family)) : FeatureNames(family)[i] = name

\* the named feature of a returned vector
Feature(res, family, name) == res.value[1][Position(family, name)]

WeatherSlots(res, family) ==
    <<Feature(res, family, "weather_condition_Clear"),
      Feature(res, family, "weather_condition_Fog"),
      Feature(res, family, "weather_condition_Rain")>>

StatusSlots(res, family) ==
    <<Feature(res, family, "status_DEGRADED"),
      Feature(res, family, "status_MAINTENANCE"),
      Feature(res, family, "status_OPERATIONAL")>>

StationSlots(res, family) ==
    <<Feature(res, family, "station_id_STATION_000"),
      Feature(res, family, "station_id_STATION_001"),
      Feature(res, family, "station_id_STATION_002"),
      Feature(res, family, "station_id_STATION_003"),
      Feature(res, family, "station_id_STATION_004")>>

\* the one-hot group with slot k set, as floats
OneHot(n, k) == [i \in 1..n |-> IF i = k THEN 100 ELSE 0]

ResolvedTemperature(data) == Resolved(data, <<"weather_temp", "weatherTemp">>, PyInt(25))
ResolvedCondition(data) ==
    Resolved(data, <<"weather_condition", "weatherCondition">>, PyStr(s_Clear))
ResolvedStation(data) == Resolved(data, <<"station_id", "stationId">>, PyStr(s_STATION_000))
ResolvedQueue(data) ==
    Resolved(data, <<"current_queue", "currentQueue", "queue_length">>, PyInt(5))

HasIsoTimestamp(data) ==
    /\ "timestamp" \in DOMAIN data
    /\ data["timestamp"].t = "str"
    /\ IsIsoDateTime(data["timestamp"].s)

\* the last step the request took
LastStep == IF history = <<>> THEN "none" ELSE history[Len(history)]

\* how often a step was taken
Count(step) == Cardinality({i \in 1..Len(history) : history[i] = step})

\* the request ended in a response of the fallback predictor
FellBack == pc = "done" /\ LastStep = "Fallback"

-----------------------------------------------------------------------------
(* Properties.                                                             *)

\* C1: predict never lets an exception reach the caller: every request ends
\* with a returned response, and a request that ended in the fallback
\* predictor returns a response tagged fallback: true.
C1_PredictNeverPropagates ==
    /\ pc # "error"
    /\ FellBack => /\ result.status = "ok"
                   /\ "fallback" \in DOMAIN result.value
                   /\ result.value.fallback = TRUE

\* C2, as stated: the family is decided by the substrings of the model
\* identifier, the full path string, in any letter case.
C2_ClassifyByIdentifier ==
    pc = "classified" => model_type = PriorityFamily(Lower(model_path))

\* C2, amended: the family is decided by the substrings of the lower-cased
\* base filename of the identifier, in the order fault, recommender,
\* gemini or llm, else standard; the classifier always returns a family.
C2_ClassifyByBaseFilename ==
    pc = "classified" =>
        /\ model_type \in Families
        /\ model_type = PriorityFamily(Lower(BaseFilename(model_path)))

\* C2 witness: a classified identifier whose directory contains "fault" and
\* whose base filename contains "recommender" and not "fault".
C2_Witness ==
    /\ pc = "classified"
    /\ Contains(s_fault, Lower(DirectoryPart(model_path)))
    /\ ~Contains(s_fault, Lower(BaseFilename(model_path)))
    /\ Contains(s_recommender, Lower(BaseFilename(model_path)))
    /\ model_type = "recommender"

\* the date and time a well-typed record is normalized at: its timestamp
\* when that is an ISO-8601 date-time, else the clock
TimeOf(data, clock) ==
    IF HasIsoTimestamp(data) THEN IsoFields(data["timestamp"].s) ELSE clock

\* C3: for a record whose present fields are well-typed scalars, normalize
\* returns one row of 23 features for the standard family and of 25 for
\* the fault family, each named feature at the position its family fixes:
\* the time features, the constant defaults and the one-hot slots sit
\* where the family's feature order puts them.
C3_VectorShape ==
    (pc # "ready" /\ WellTyped(input_data)) =>
        /\ result.status = "ok"
        /\ Len(result.value) = 1
        /\ Len(result.value[1]) = (IF model_type = "fault" THEN 25 ELSE 23)
        /\ Len(result.value[1]) = Len(FeatureNames(model_type))
        /\ Feature(result, model_type, "hour_of_day")
               = 100 * TimeOf(input_data, Clocks[1]).hour
        /\ Feature(result, model_type, "day_of_week")
               = 100 * weekday(TimeOf(input_data, Clocks[1]))
        /\ Feature(result, model_type, "traffic_factor") \in {100, 120}
        /\ Feature(result, model_type, "total_batteries") = 5000
        /\ Feature(result, model_type, "power_capacity_kw") = 20000
        /\ \A i \in 1..3 : WeatherSlots(result, model_type)[i] \in {0, 100}
        /\ \A i \in 1..3 : StatusSlots(result, model_type)[i] \in {0, 100}
        /\ \A i \in 1..5 : StationSlots(result, model_type)[i] \in {0, 100}
        /\ model_type = "fault" =>
               /\ Feature(result, model_type, "queue_length")
                      = Hundredths(ResolvedQueue(input_data))
               /\ Feature(result, model_type, "avg_wait_time")
                      = (IF "avg_wait_time" \in DOMAIN input_data
                         THEN Hundredths(input_data["avg_wait_time"])
                         ELSE 3 * Hundredths(ResolvedQueue(input_data)))

\* C3 witness: a well-typed record that lacks current_queue and is not
\* empty, normalized for the fault family into 25 features.
C3_Witness ==
    /\ pc = "once"
    /\ WellTyped(input_data)
    /\ input_data # EmptyRecord
    /\ "current_queue" \notin DOMAIN input_data
    /\ model_type = "fault"
    /\ result.status = "ok"
    /\ Len(result.value[1]) = 25

\* the status slot the upper-cased status string selects: DEGRADED,
\* MAINTENANCE, and OPERATIONAL for any other or absent status
ExpectedStatusSlot(data) ==
    LET status == Resolved(data, <<"status">>, PyStr(s_OPERATIONAL))
    IN  IF status.t = "str" /\ Upper(status.s) = s_DEGRADED THEN 1
        ELSE IF status.t = "str" /\ Upper(status.s) = s_MAINTENANCE THEN 2
        ELSE 3

\* C4: in every vector normalize produces exactly one status slot is 1,
\* the one the upper-cased status selects, an unrecognized or absent status
\* selecting status_OPERATIONAL.
C4_StatusOneHot ==
    (pc # "ready" /\ result.status = "ok") =>
        StatusSlots(result, model_type) = OneHot(3, ExpectedStatusSlot(input_data))

\* the weather slot: Fog if condition == "Fog" or temperature < 10, else
\* Rain if condition == "Rain" or temperature > 35, else Clear
ExpectedWeatherSlot(data) ==
    LET condition == ResolvedCondition(data)
        temperature == ResolvedTemperature(data)
    IN  IF EqStr(condition, s_Fog) \/ LessThan(temperature, 10) THEN 2
        ELSE IF EqStr(condition, s_Rain) \/ GreaterThan(temperature, 35) THEN 3
        ELSE 1

\* the station slot: the one of STATION_000..STATION_004 the id names, the
\* first for any other or absent id
ExpectedStationSlot(data) ==
    LET id == ResolvedStation(data)
    IN  IF \E i \in 1..5 : EqStr(id, station_ids[i])
        THEN CHOOSE i \in 1..5 : EqStr(id, station_ids[i])
        ELSE 1

\* C5: for a record with a numeric temperature, in every vector normalize
\* produces exactly one weather slot is 1 (Fog, else Rain, else Clear by
\* condition and temperature) and exactly one station slot is 1 (the id's,
\* else STATION_000's).
C5_WeatherAndStationOneHot ==
    (pc # "ready" /\ result.status = "ok" /\ IsNumber(ResolvedTemperature(input_data))) =>
        /\ WeatherSlots(result, model_type) = OneHot(3, ExpectedWeatherSlot(input_data))
        /\ StationSlots(result, model_type) = OneHot(5, ExpectedStationSlot(input_data))

\* C5 witness: {"weatherTemp": 5} normalized for the standard family gives
\* the weather slots [0, 1, 0] and the STATION_000 slot.
C5_Witness ==
    /\ pc = "once"
    /\ input_data = ("weatherTemp" :> PyInt(5))
    /\ model_type = "standard"
    /\ result.status = "ok"
    /\ WeatherSlots(result, model_type) = <<0, 100, 0>>
    /\ StationSlots(result, model_type) = <<100, 0, 0, 0, 0>>

\* C6: normalize has no failure outcome: whatever the record holds, it
\* returns the full vector.
C6_NormalizeNeverRaises ==
    pc # "ready" =>
        /\ result.status = "ok"
        /\ Len(result.value[1]) = Len(FeatureNames(model_type))

\* the first keyword of the fallback predictor's order that the lower-cased
\* base filename contains, "none" when it contains none
FallbackKeywords ==
    <<{s_traffic}, {s_fault}, {s_queue}, {s_wait}, {s_demand, s_arrival}, {s_rebalance},
      {s_stock, s_order}, {s_staff, s_diversion}, {s_tieup, s_storage}, {s_action},
      {s_recommender}, {s_gemini, s_llm}>>
FirstKeyword(path) ==
    LET name == Lower(BaseFilename(path))
        hits == {i \in 1..Len(FallbackKeywords) :
                    \E w \in FallbackKeywords[i] : Contains(w, name)}
    IN  IF hits = {} THEN 0 ELSE CHOOSE i \in hits : \A j \in hits : i <= j

\* C7: the fallback predictor always succeeds, its result always carries
\* fallback: true, and the result is selected by the first matching keyword
\* of the fixed order: the traffic scalar lies within [0.5, 0.9], "fault"
\* without "traffic" gives 0.15 with probabilities [0.85, 0.15], the
\* constant branches give their constants, and no match gives 0.5.
C7_FallbackAlwaysSucceeds ==
    pc = "returned" =>
        /\ result.status = "ok"
        /\ "fallback" \in DOMAIN result.value
        /\ result.value.fallback = TRUE
        /\ LET k == FirstKeyword(model_path)
               r == result.value
           IN  /\ k = 1 => r.prediction >= 50 /\ r.prediction <= 90
               /\ k = 2 => r = [prediction |-> 15, probabilities |-> <<85, 15>>,
                                fallback |-> TRUE]
               /\ k = 5 => r = [prediction |-> 60, fallback |-> TRUE]
               /\ k = 6 => r = [prediction |-> 40, fallback |-> TRUE]
               /\ k = 7 => r = [prediction |-> 50, fallback |-> TRUE]
               /\ k = 8 => r = [prediction |-> 30, fallback |-> TRUE]
               /\ k = 9 => r = [prediction |-> 40, fallback |-> TRUE]
               /\ k = 10 => r = [prediction |-> 0, probabilities |-> <<80, 15, 5>>,
                                 fallback |-> TRUE]
               /\ k = 11 => r = [prediction |-> 75, recommendation_score |-> 75,
                                 fallback |-> TRUE]
               /\ k = 12 => DOMAIN r = {"explanation", "fallback"}
               /\ k = 0 => r = [prediction |-> 50, fallback |-> TRUE]

\* C8, as stated: with a timestamp key in the record, normalizing it twice
\* yields identical results whatever the clock shows at either call.
C8_IdempotentWithTimestampKey ==
    (pc = "twice" /\ "timestamp" \in DOMAIN input_data) => result2 = result

\* C8, amended: with a timestamp that is an ISO-8601 date-time string,
\* normalizing the record twice yields identical results whatever the clock
\* shows at either call, hour_of_day is the timestamp's hour and
\* is_peak_hour is 1 exactly when that hour is in {8, 9, 17, 18, 19}.
C8_IdempotentWithIsoTimestamp ==
    (pc = "twice" /\ HasIsoTimestamp(input_data)) =>
        /\ result2 = result
        /\ result.status = "ok" =>
               LET hour == ParseInt(SubSeq(input_data["timestamp"].s, 12, 13))
               IN  /\ Feature(result, model_type, "hour_of_day") = 100 * hour
                   /\ Feature(result, model_type, "is_peak_hour")
                          = (IF hour \in {8, 9, 17, 18, 19} THEN 100 ELSE 0)

\* C8 witness: a record with an ISO-8601 timestamp at a peak hour,
\* normalized on the Friday and again on the Saturday.
C8_Witness ==
    /\ pc = "twice"
    /\ HasIsoTimestamp(input_data)
    /\ now = Clocks[3]
    /\ result.status = "ok"
    /\ result2 = result
    /\ Feature(result, model_type, "is_peak_hour") = 100

\* C9: when predict falls back for a "queue" model (neither "traffic" nor
\* "fault" in the name) the response is {prediction: current_queue as a
\* float, fallback: true}, and for a "wait" model (none of the earlier
\* keywords) the prediction is 3 x current_queue, current_queue being
\* resolved from current_queue, then currentQueue, then queue_length, then
\* the default 5.  Stated for records whose resolved current_queue is a
\* number.
C9_FallbackEchoesResolvedQueue ==
    (FellBack /\ IsNumber(ResolvedQueue(input_data))) =>
        /\ FirstKeyword(model_path) = 3 =>
               result.value = [prediction |-> Hundredths(ResolvedQueue(input_data)),
                               fallback |-> TRUE]
        /\ FirstKeyword(model_path) = 4 =>
               result.value = [prediction |-> 3 * Hundredths(ResolvedQueue(input_data)),
                               fallback |-> TRUE]

\* the steps of CheckExists, Classify, LoadJoblib, LoadPickle, Invoke taken
\* so far, in the order taken
StepsTaken == SelectSeq(history, LAMBDA s : s # "Fallback")
StepOrder == <<"CheckExists", "Classify", "LoadJoblib", "LoadPickle", "Invoke">>

\* a sequence of steps that keeps the order of StepOrder, each step at most
\* once
InStepOrder(steps) ==
    \A i, j \in 1..Len(steps) :
        i < j => \E a, b \in 1..Len(StepOrder) :
                    a < b /\ StepOrder[a] = steps[i] /\ StepOrder[b] = steps[j]

\* C10: within one request the steps occur in the order CheckExists,
\* Classify, Load, Invoke, each at most once; a missing artifact goes
\* straight to the fallback with no load; pickle is tried only after
\* joblib failed; the fallback at Load follows two failed loads; the model
\* is invoked only after a load succeeded; and every request ends with
\* exactly one response, produced by Invoke or by a single call of the
\* fallback predictor.
C10_StepOrderAndSingleResponse ==
    /\ InStepOrder(StepsTaken)
    /\ Count("LoadJoblib") + Count("LoadPickle") <= 2
    /\ ~artifact.exists => Count("Classify") + Count("LoadJoblib") + Count("LoadPickle")
                               + Count("Invoke") = 0
    /\ Count("LoadPickle") = 1 => Count("LoadJoblib") = 1 /\ ~artifact.joblib_ok
    /\ Count("Invoke") = 1 => artifact.joblib_ok \/ artifact.pickle_ok
    /\ pc = "Fallback240" => Count("LoadJoblib") = 1 /\ Count("LoadPickle") = 1
    /\ Count("Fallback") <= 1
    /\ pc # "error"
    /\ pc = "done" => /\ result.status = "ok"
                      /\ LastStep \in {"Invoke", "Fallback"}

=============================================================================
